---- MODULE Spec2Model ----
(***************************************************************************)
(* Sequential footprint allocation (src/intersect.py).                     *)
(*                                                                         *)
(* The plane is a finite partition into cells, each with an area (the      *)
(* grid); a geometry is the set of cells it covers, written in the         *)
(* coordinates of its CRS.                                                 *)
(* Reprojection moves a geometry from the coordinates of one CRS to those  *)
(* of another; area is computed from coordinates alone, as shapely does.   *)
(* Areas are exact: area_ha is kept in hundredths of a hectare.            *)
(* The files are the environment: what a path holds is drawn when the run  *)
(* reads it; only whether a component file has rows and no CRS is fixed    *)
(* when the files are discovered (no_crs_files).                           *)
(***************************************************************************)
EXTENDS Integers, Sequences, FiniteSets

\* ---------------------------------------------------------------- bounds
NumCells == 2
MaxFiles == 2
MaxRows  == 1

Cells == 0 .. (NumCells - 1)

\* The grid of the run: square metres of each coordinate cell.
VARIABLE cell_area

GridCells == DOMAIN cell_area
GridSize == Cardinality(GridCells)

\* ------------------------------------------------------------------- CRS
NoCRS == "None"
Geographic == "EPSG:4326"
Projected == "EPSG:3857"
TargetCRS == "EPSG:5551"
DocumentedCRS == "EPSG:6933"

\* What a file can declare: no CRS, a geographic one or a projected one.
InputCRS == {NoCRS, Geographic, Projected}

\* gdf.crs.is_geographic
IsGeographic(crs) == crs = Geographic

\* Offset of the coordinates of a CRS against the ground partition.
CrsShift(crs) ==
  IF crs = Geographic THEN 1
  ELSE IF crs = TargetCRS THEN 2
  ELSE IF crs = DocumentedCRS THEN 3
  ELSE 0

\* Coordinates of a cell of CRS `from` in CRS `to`.
Transform(c, from, to) ==
  (c + GridSize * 4 - CrsShift(from) + CrsShift(to)) % GridSize

\* ------------------------------------------------------------- geometry
NullFeature == [null |-> TRUE, cells |-> {}]
FeatureValues ==
  {NullFeature} \cup {[null |-> FALSE, cells |-> s] : s \in SUBSET GridCells}

RowSeqs == UNION {[1 .. n -> FeatureValues] : n \in 0 .. MaxRows}

\* What gpd.read_file can return: a declared CRS (or none) and rows.
FileValues == [crs : InputCRS, rows : RowSeqs]

NoLayer == [crs |-> NoCRS, rows |-> <<>>]

RECURSIVE NotNull(_)
\* gdf[gdf.geometry.notnull()]: only missing geometries are dropped, an
\* empty geometry is not null.
NotNull(rows) ==
  IF rows = <<>> THEN <<>>
  ELSE IF rows[1].null THEN NotNull(Tail(rows))
  ELSE <<rows[1]>> \o NotNull(Tail(rows))

\* make_valid keeps the region a geometry covers, and maps null to null.
MakeValid(rows) == [k \in 1 .. Len(rows) |-> rows[k]]

ReadAnyVector(file) ==
  LET gdf == [crs |-> file.crs, rows |-> NotNull(file.rows)]
  IN IF Len(gdf.rows) = 0 THEN gdf
     ELSE [crs |-> gdf.crs, rows |-> NotNull(MakeValid(gdf.rows))]

\* gdf.to_crs(target)
ToCrs(gdf, target) ==
  [crs |-> target,
   rows |-> [k \in 1 .. Len(gdf.rows) |->
               [null |-> gdf.rows[k].null,
                cells |-> {Transform(c, gdf.crs, target) : c \in gdf.rows[k].cells}]]]

\* gdf.union_all()
UnionAll(gdf) == UNION {gdf.rows[k].cells : k \in 1 .. Len(gdf.rows)}

\* Variant: the overlay returns the union of its operands.
IntersectionAsUnion(a, b) == a \cup b

Intersection(a, b) == a \cap b
\* Variant: the operands of the difference are swapped.
DifferenceSwapped(a, b) == b \ a

Difference(a, b) == a \ b
IsEmpty(g) == g = {}

RECURSIVE SumOver(_, _)
SumOver(f, s) ==
  IF s = {} THEN 0
  ELSE LET c == CHOOSE x \in s : TRUE
       IN f[c] + SumOver(f, s \ {c})

\* ------------------------------------------------------------ exceptions
Ok(v) == [raised |-> "none", value |-> v]
Raise(e) == [raised |-> e, value |-> NoLayer]

\* Variant: a layer without CRS passes through.
EnsureUnchecked(gdf) ==
  IF IsGeographic(gdf.crs) THEN Ok(ToCrs(gdf, TargetCRS)) ELSE Ok(gdf)

\* Variant: every layer with a CRS is reprojected to the target CRS.
EnsureAlwaysReproject(gdf) ==
  IF gdf.crs = NoCRS THEN Raise("MissingCRS") ELSE Ok(ToCrs(gdf, TargetCRS))

EnsureProjectedEqualArea(gdf) ==
  IF gdf.crs = NoCRS THEN Raise("MissingCRS")
  ELSE IF IsGeographic(gdf.crs) THEN Ok(ToCrs(gdf, TargetCRS))
  ELSE Ok(gdf)

\* ----------------------------------------------------------------- paths
\* A path is its string, a sequence of character codes; the k-th candidate
\* component file is "A/a.shp", "A/b.shp", "B/a.shp", "B/b.shp", ...
PathOf(k) ==
  <<65 + ((k - 1) \div 2), 47, 97 + ((k - 1) % 2), 46, 115, 104, 112>>

AllPaths == {PathOf(k) : k \in 1 .. MaxFiles}

\* Lists without repetition over a set of paths, in any order.
Orderings(S) ==
  {q \in [1 .. Cardinality(S) -> S] : \A a, b \in DOMAIN q : a # b => q[a] # q[b]}

\* What root.rglob("*.shp") can return: any set of files, in any order.
FindShapefiles == UNION {Orderings(S) : S \in SUBSET AllPaths}

RECURSIVE LexLess(_, _)
\* Python's < on str
LexLess(a, b) ==
  IF b = <<>> THEN FALSE
  ELSE IF a = <<>> THEN TRUE
  ELSE IF a[1] # b[1] THEN a[1] < b[1]
  ELSE LexLess(Tail(a), Tail(b))

RECURSIVE Insert(_, _)
Insert(x, q) ==
  IF q = <<>> THEN <<x>>
  ELSE IF LexLess(x, q[1]) THEN <<x>> \o q
  ELSE <<q[1]>> \o Insert(x, Tail(q))

\* Variant: the list is left in the order of discovery.
SortedNot(q) == q

RECURSIVE Sorted(_)
\* sorted(shp_paths)
Sorted(q) == IF q = <<>> THEN <<>> ELSE Insert(q[Len(q)], Sorted(SubSeq(q, 1, Len(q) - 1)))

LastIndexOf(s, ch) ==
  LET hits == {k \in 1 .. Len(s) : s[k] = ch}
  IN IF hits = {} THEN 0 ELSE CHOOSE k \in hits : \A j \in hits : j <= k

\* Path(p).name, .stem, .parent.name
PathName(p) == SubSeq(p, LastIndexOf(p, 47) + 1, Len(p))
\* Variant: the suffix is kept.
PathStemWithSuffix(p) == PathName(p)

PathStem(p) ==
  LET n == PathName(p)
      d == LastIndexOf(n, 46)
  IN IF d <= 1 THEN n ELSE SubSeq(n, 1, d - 1)
PathParentName(p) == PathName(SubSeq(p, 1, LastIndexOf(p, 47) - 1))

LayerName(shp, name_from) ==
  IF name_from = "filename" THEN PathStem(shp) ELSE PathParentName(shp)

\* ------------------------------------------------------------------ area
\* Cell areas in square metres: cells of a few hundredths of a hectare.
FineGrid == [c \in Cells |-> 700 + 800 * c]

\* The grid of the worked example: a master of 100 ha cut into its left
\* 30 ha, its middle 30 ha and its right 40 ha.
ExampleGrid == [c \in 0 .. 2 |-> IF c = 2 THEN 400000 ELSE 300000]

SqMPerHa == 10000

\* geom.area, from the coordinates of the geometry
Area(geom, grid) == SumOver(grid, geom)

\* Variant: square metres are divided by 1000.
AreaHaWrongUnit(geom, grid) == (Area(geom, grid) * 100) \div 1000

\* area / 10_000.0, in hundredths of a hectare
AreaHa(geom, grid) == (Area(geom, grid) * 100) \div SqMPerHa

\* Variant: rounds up to the next tenth.
Round1Ceil(x) == ((x + 9) \div 10) * 10

\* Series.round(1) on hundredths of a hectare: to the nearest tenth, a tie
\* to the even tenth.
Round1(x) ==
  LET q == x \div 10
      r == x % 10
  IN IF r < 5 THEN q * 10
     ELSE IF r > 5 THEN (q + 1) * 10
     ELSE IF q % 2 = 0 THEN q * 10 ELSE (q + 1) * 10

\* ----------------------------------------------------------- aggregation
RECURSIVE SumArea(_)
SumArea(recs) ==
  IF recs = <<>> THEN 0 ELSE recs[1].area_ha + SumArea(Tail(recs))

RECURSIVE Select(_, _)
Select(recs, name) ==
  IF recs = <<>> THEN <<>>
  ELSE IF recs[1].Layer = name THEN <<recs[1]>> \o Select(Tail(recs), name)
  ELSE Select(Tail(recs), name)

LayerNames(recs) == {recs[k].Layer : k \in 1 .. Len(recs)}

RECURSIVE SortedNames(_)
SortedNames(S) ==
  IF S = {} THEN <<>>
  ELSE LET m == CHOOSE x \in S : \A y \in S : y = x \/ LexLess(x, y)
       IN <<m>> \o SortedNames(S \ {m})

\* df["area_ha"].round(1)
RoundRows(rows) ==
  [k \in 1 .. Len(rows) |-> [Layer |-> rows[k].Layer, area_ha |-> Round1(rows[k].area_ha)]]

\* Variant: every record is rounded before the records of a name are summed.
GroupBySumOfRounded(recs) ==
  LET names == SortedNames(LayerNames(recs))
  IN [k \in 1 .. Len(names) |->
        [Layer |-> names[k],
         area_ha |-> SumArea(RoundRows(Select(recs, names[k])))]]

\* df.groupby("Layer", as_index=False)["area_ha"].sum(): one row per name,
\* rows in the order of the names.
GroupBySum(recs) ==
  LET names == SortedNames(LayerNames(recs))
  IN [k \in 1 .. Len(names) |->
        [Layer |-> names[k], area_ha |-> SumArea(Select(recs, names[k]))]]

\* ------------------------------------------------------- allocation step
\* Variant: the component stays in its own CRS.
ConformNot(gdf, crs) == gdf

\* comp.to_crs(master.crs) when the CRSs differ
Conform(gdf, crs) == IF gdf.crs # crs THEN ToCrs(gdf, crs) ELSE gdf

\* Variant: the component is not clipped to the remaining master.
AllocatedGeomUnclipped(comp_union, remaining) == comp_union

\* allocated_geom = comp_union.intersection(master_union)
AllocatedGeom(comp_union, remaining) == Intersection(comp_union, remaining)

\* allocated_area_ha
AllocatedAreaHa(allocated, grid) ==
  IF IsEmpty(allocated) THEN 0 ELSE AreaHa(allocated, grid)

\* Variant: the allocation is not subtracted from the remaining master.
RemainingKept(remaining, allocated) == remaining

\* master_union after the step
Remaining(remaining, allocated) ==
  IF IsEmpty(allocated) THEN remaining ELSE Difference(remaining, allocated)

\* ----------------------------------------------------------------- state
VARIABLES
  layer_name_from,  \* parameter
  sort_layers,      \* parameter
  pc,               \* position of the run
  err,              \* the exception that ended the run, or "none"
  master_file,      \* the master as read: declared CRS, whether it has no row,
                    \* the region it covers in its own coordinates
  master_crs,       \* master.crs after normalisation
  footprint,        \* master.union_all() as first computed
  master_union,     \* the remaining master geometry
  found,            \* component files as _find_shapefiles returned them
  shp_paths,        \* component files in processing order
  no_crs_files,     \* files of the input that have rows and declare no CRS
  visited,          \* number of component files loaded so far
  comp,             \* the component of the current iteration: declared CRS,
                    \* region in its own coordinates, CRS at the overlay
  results,          \* allocation records
  steps,            \* per record: file, component union, allocated geometry
  df                \* the result table

vars ==
  <<layer_name_from, sort_layers, cell_area, pc, err, master_file, master_crs,
    footprint, master_union, found, shp_paths, no_crs_files, visited, comp, results,
    steps, df>>

params == <<layer_name_from, sort_layers, cell_area>>

NoComp == [declared |-> NoCRS, geom |-> {}, crs |-> NoCRS]

InitOn(grid) ==
  /\ layer_name_from \in {"parent_folder", "filename"}
  /\ sort_layers \in BOOLEAN
  /\ cell_area = grid
  /\ pc = "read_master"
  /\ err = "none"
  /\ master_file = [declared |-> NoCRS, empty |-> TRUE, geom |-> {}]
  /\ master_crs = NoCRS
  /\ footprint = {}
  /\ master_union = {}
  /\ found = <<>>
  /\ shp_paths = <<>>
  /\ no_crs_files = {}
  /\ visited = 0
  /\ comp = NoComp
  /\ results = <<>>
  /\ steps = <<>>
  /\ df = <<>>

Init == InitOn(FineGrid)

InitExample == InitOn(ExampleGrid)

Fail(e) ==
  /\ pc' = "failed"
  /\ err' = e

\* Lines 67-73 on one master file: read it, reject an empty one, normalise
\* its CRS and dissolve it.
LoadMaster(file) ==
  LET master == ReadAnyVector(file)
      norm == EnsureProjectedEqualArea(master)
  IN IF Len(master.rows) = 0
     THEN [raised |-> "EmptyMaster", declared |-> file.crs, empty |-> TRUE,
           geom |-> {}, crs |-> NoCRS, master_union |-> {}]
     ELSE IF norm.raised # "none"
     THEN [raised |-> norm.raised, declared |-> file.crs, empty |-> FALSE,
           geom |-> UnionAll(master), crs |-> NoCRS, master_union |-> {}]
     ELSE [raised |-> "none", declared |-> file.crs, empty |-> FALSE,
           geom |-> UnionAll(master), crs |-> norm.value.crs,
           master_union |-> UnionAll(norm.value)]

ReadMaster ==
  /\ pc = "read_master"
  /\ \E m \in {LoadMaster(file) : file \in FileValues} :
       /\ master_file' = [declared |-> m.declared, empty |-> m.empty, geom |-> m.geom]
       /\ IF m.raised # "none"
          THEN /\ Fail(m.raised)
               /\ UNCHANGED <<master_crs, footprint, master_union>>
          ELSE /\ master_crs' = m.crs
               /\ footprint' = m.master_union
               /\ master_union' = m.master_union
               /\ pc' = "find_components"
               /\ err' = "none"
  /\ UNCHANGED <<params, found, shp_paths, no_crs_files, visited, comp, results, steps, df>>

\* Lines 76-80: discover the component files and order them.
FindComponents ==
  /\ pc = "find_components"
  /\ \E paths \in FindShapefiles :
       /\ found' = paths
       /\ shp_paths' = IF sort_layers THEN Sorted(paths) ELSE paths
       /\ no_crs_files' \in SUBSET {paths[k] : k \in 1 .. Len(paths)}
       /\ pc' = IF paths = <<>> THEN "aggregate" ELSE "loop"
  /\ UNCHANGED <<params, err, master_file, master_crs, footprint, master_union, visited, comp,
                 results, steps, df>>

\* The files gpd.read_file can find at a component path.
ComponentFiles(shp) ==
  {file \in FileValues :
     (file.crs = NoCRS /\ Len(ReadAnyVector(file).rows) > 0) <=> shp \in no_crs_files}

\* Variant: the loop ends after any iteration.
AfterIterationBreak == "aggregate"

\* Where the for loop goes after an iteration that did not break.
AfterIteration == IF visited + 1 = Len(shp_paths) THEN "aggregate" ELSE "loop"

\* Variant: a component without CRS is skipped as if it were empty.
LoadComponentSkipNoCRS(file, crs) ==
  LET loaded == ReadAnyVector(file)
      conformed == Conform(loaded, crs)
      norm == EnsureProjectedEqualArea(conformed)
  IN IF Len(loaded.rows) = 0 \/ loaded.crs = NoCRS
     THEN [raised |-> "none", empty |-> TRUE, declared |-> file.crs,
           geom |-> UnionAll(loaded), crs |-> loaded.crs, comp_union |-> {}]
     ELSE [raised |-> "none", empty |-> FALSE, declared |-> file.crs,
           geom |-> UnionAll(loaded), crs |-> norm.value.crs, comp_union |-> UnionAll(norm.value)]

\* Variant: the CRS of a component is checked before its emptiness.
LoadComponentCrsFirst(file, crs) ==
  LET loaded == ReadAnyVector(file)
      conformed == Conform(loaded, crs)
      norm == EnsureProjectedEqualArea(conformed)
  IN IF loaded.crs = NoCRS
     THEN [raised |-> "MissingCRS", empty |-> FALSE, declared |-> file.crs,
           geom |-> UnionAll(loaded), crs |-> loaded.crs, comp_union |-> {}]
     ELSE IF Len(loaded.rows) = 0
     THEN [raised |-> "none", empty |-> TRUE, declared |-> file.crs,
           geom |-> UnionAll(loaded), crs |-> loaded.crs, comp_union |-> {}]
     ELSE [raised |-> "none", empty |-> FALSE, declared |-> file.crs,
           geom |-> UnionAll(loaded), crs |-> norm.value.crs,
           comp_union |-> UnionAll(norm.value)]

\* Lines 91-103 on one component file: read it, check and conform its CRS,
\* dissolve it.
LoadComponent(file, crs) ==
  LET loaded == ReadAnyVector(file)
      conformed == Conform(loaded, crs)
      norm == EnsureProjectedEqualArea(conformed)
  IN IF Len(loaded.rows) = 0
     THEN [raised |-> "none", empty |-> TRUE, declared |-> file.crs,
           geom |-> UnionAll(loaded), crs |-> loaded.crs, comp_union |-> {}]
     ELSE IF loaded.crs = NoCRS
     THEN [raised |-> "MissingCRS", empty |-> FALSE, declared |-> file.crs,
           geom |-> UnionAll(loaded), crs |-> loaded.crs, comp_union |-> {}]
     ELSE IF norm.raised # "none"
     THEN [raised |-> norm.raised, empty |-> FALSE, declared |-> file.crs,
           geom |-> UnionAll(loaded), crs |-> conformed.crs, comp_union |-> {}]
     ELSE [raised |-> "none", empty |-> FALSE, declared |-> file.crs,
           geom |-> UnionAll(loaded), crs |-> norm.value.crs, comp_union |-> UnionAll(norm.value)]

\* Lines 83-120: one iteration of the allocation loop.
LoopStep ==
  /\ pc = "loop"
  /\ visited < Len(shp_paths)
  /\ visited' = visited + 1
  /\ LET shp == shp_paths[visited + 1]
         layer_name == LayerName(shp, layer_name_from)
     IN \E c \in {LoadComponent(file, master_crs) : file \in ComponentFiles(shp)} :
          LET allocated_geom == AllocatedGeom(c.comp_union, master_union)
              allocated_area_ha == AllocatedAreaHa(allocated_geom, cell_area)
              remaining == Remaining(master_union, allocated_geom)
          IN /\ comp' = [declared |-> c.declared, geom |-> c.geom, crs |-> c.crs]
             /\ IF c.raised # "none"
                THEN /\ Fail(c.raised)
                     /\ UNCHANGED <<master_union, results, steps>>
                ELSE IF c.empty
                THEN /\ results' = Append(results, [Layer |-> layer_name, area_ha |-> 0])
                     /\ steps' = Append(steps, [shp |-> shp, empty |-> TRUE,
                                                comp_union |-> {}, allocated_geom |-> {}])
                     /\ pc' = AfterIteration
                     /\ UNCHANGED <<err, master_union>>
                ELSE /\ results' = Append(results, [Layer |-> layer_name,
                                                    area_ha |-> allocated_area_ha])
                     /\ steps' = Append(steps, [shp |-> shp, empty |-> FALSE,
                                                comp_union |-> c.comp_union,
                                                allocated_geom |-> allocated_geom])
                     /\ master_union' = remaining
                     /\ pc' = IF IsEmpty(remaining) THEN "aggregate" ELSE AfterIteration
                     /\ err' = err
  /\ UNCHANGED <<params, master_file, master_crs, footprint, found, shp_paths,
                 no_crs_files, df>>

\* Lines 122-130: build the table, sum per layer name, round. A DataFrame
\* built from no record has no "Layer" column and groupby raises KeyError.
Aggregate ==
  /\ pc = "aggregate"
  /\ IF results = <<>>
     THEN /\ Fail("KeyError")
          /\ df' = df
     ELSE /\ df' = RoundRows(GroupBySum(results))
          /\ pc' = "done"
          /\ err' = err
  /\ UNCHANGED <<params, master_file, master_crs, footprint, master_union, found,
                 shp_paths, no_crs_files, visited, comp, results, steps>>

Next == ReadMaster \/ FindComponents \/ LoopStep \/ Aggregate

Spec == Init /\ [][Next]_vars

\* The runs over the grid of the worked example.
SpecExample == InitExample /\ [][Next]_vars

\* ================================================================ claims
RECURSIVE SumSet(_, _)
\* Sum of area_ha over the records of `recs` at the indices of `idx`.
SumSet(recs, idx) ==
  IF idx = {} THEN 0
  ELSE LET k == CHOOSE x \in idx : TRUE
       IN recs[k].area_ha + SumSet(recs, idx \ {k})

TotalHa(recs) == SumSet(recs, DOMAIN recs)

\* C1: after every step of the loop the unrounded areas of the records
\* emitted so far add up to area(master) minus area(remaining), hence to at
\* most area(master).
C1_Conservation ==
  /\ TotalHa(results)
       = AreaHa(footprint, cell_area) - AreaHa(master_union, cell_area)
  /\ TotalHa(results) <= AreaHa(footprint, cell_area)

\* Two files in a row were each allocated a non-empty part of the master.
C1_Witness ==
  /\ Len(results) = 2
  /\ results[1].area_ha > 0
  /\ results[2].area_ha > 0

\* C2: the regions allocated to two different visited files are disjoint.
C2_NoDoubleCounting ==
  \A a, b \in DOMAIN steps :
    a # b => steps[a].allocated_geom \cap steps[b].allocated_geom = {}

\* Two visited components overlap each other inside the master and both
\* were allocated area.
C2_Witness ==
  /\ Len(steps) = 2
  /\ steps[1].comp_union \cap steps[2].comp_union \cap footprint # {}
  /\ steps[1].allocated_geom # {}
  /\ steps[2].allocated_geom # {}

\* C3: every cell of the master covered by a visited component is credited
\* to the first visited component that covers it, and to no other; a cell is
\* credited only to a component that covers it.
C3_FirstInOrderWins ==
  \A k \in DOMAIN steps :
    \A c \in GridCells :
      c \in steps[k].allocated_geom
        <=> /\ c \in footprint
            /\ c \in steps[k].comp_union
            /\ \A j \in 1 .. (k - 1) : c \notin steps[j].comp_union

\* Two components overlap inside the master and are processed in the order
\* opposite to the sorted one: the overlap went to the one visited first.
C3_Witness ==
  /\ Len(steps) = 2
  /\ Len(shp_paths) = 2
  /\ LexLess(shp_paths[2], shp_paths[1])
  /\ steps[1].comp_union \cap steps[2].comp_union \cap footprint # {}
  /\ steps[1].comp_union \cap steps[2].comp_union \cap footprint
       \subseteq steps[1].allocated_geom
  /\ steps[2].allocated_geom # {}

\* C4: once remaining is empty, no allocation record is emitted for a file
\* that comes later in the processing order.
C4_EarlyTermination ==
  [][(pc = "loop" /\ IsEmpty(master_union)) => results' = results]_vars

\* C5: a component file that loads with no geometry (every row null) yields
\* a record of exactly 0 under its layer name, leaves remaining unchanged,
\* and the loop goes on to the next file when there is one.
C5_EmptyComponent ==
  [][(Len(steps') = Len(steps) + 1 /\ steps'[Len(steps')].empty) =>
       /\ results' = Append(results,
                            [Layer |-> LayerName(shp_paths[visited + 1], layer_name_from),
                             area_ha |-> 0])
       /\ master_union' = master_union
       /\ err' = "none"
       /\ pc' = IF visited' < Len(shp_paths) THEN "loop" ELSE "aggregate"]_vars

\* An empty component was recorded with 0 and the next file was allocated
\* area.
C5_Witness ==
  /\ Len(steps) = 2
  /\ steps[1].empty
  /\ results[1].area_ha = 0
  /\ results[2].area_ha > 0

\* C6: the result table has one row per distinct layer name of the records,
\* and a row holds the sum of the unrounded areas of the records of its
\* name, rounded once.
C6_RepeatedNames ==
  pc = "done" =>
    /\ \A a, b \in DOMAIN df : a # b => df[a].Layer # df[b].Layer
    /\ {df[k].Layer : k \in DOMAIN df} = {results[k].Layer : k \in DOMAIN results}
    /\ \A k \in DOMAIN df :
         df[k].area_ha
           = Round1(SumSet(results, {j \in DOMAIN results : results[j].Layer = df[k].Layer}))

\* Two records share a name, and rounding each before summing would give
\* another total.
C6_Witness ==
  /\ pc = "done"
  /\ Len(results) = 2
  /\ results[1].Layer = results[2].Layer
  /\ Len(df) = 1
  /\ Round1(results[1].area_ha) + Round1(results[2].area_ha)
       # Round1(results[1].area_ha + results[2].area_ha)

\* C7 as stated: the rounded rows of the result table add up to at most
\* the area of the master.
C7_Original ==
  pc = "done" => TotalHa(df) <= AreaHa(footprint, cell_area)

\* C7 amended: the rounded rows add up to at most the area of the master
\* plus 0.05 ha for every row of the table.
C7_RoundedBound ==
  pc = "done" => TotalHa(df) <= AreaHa(footprint, cell_area) + 5 * Len(df)

\* The rows of a returned table add up to more than the master.
C7_Witness ==
  /\ pc = "done"
  /\ TotalHa(df) > AreaHa(footprint, cell_area)

\* What C8 promises of a run: it failed on the missing CRS with nothing
\* discovered, loaded, recorded or returned.
FailedBeforeComponents ==
  /\ pc = "failed"
  /\ err = "MissingCRS"
  /\ shp_paths = <<>>
  /\ visited = 0
  /\ results = <<>>
  /\ df = <<>>

\* C8 as stated: a master that declares no CRS fails the run with the
\* missing-CRS error before any component is discovered.
C8_Original ==
  (pc # "read_master" /\ master_file.declared = NoCRS) => FailedBeforeComponents

\* C8 amended: a master that has a non-null geometry and declares no CRS
\* fails the run with the missing-CRS error before any component is
\* discovered.
C8_MasterMissingCRS ==
  (pc # "read_master" /\ master_file.declared = NoCRS /\ ~master_file.empty)
    => FailedBeforeComponents

\* A master with rows and no CRS was read.
C8_Witness ==
  /\ pc = "failed"
  /\ master_file.declared = NoCRS
  /\ ~master_file.empty

\* C9 as stated: no run over an input with a component file that has
\* geometry and no CRS returns a result table.
C9_Original ==
  (pc = "done" /\ ~IsEmpty(footprint)) => no_crs_files = {}

\* C9 amended: a component file with geometry and no CRS that the loop
\* loads aborts the run at that file with the missing-CRS error, and no
\* table is returned.
C9_VisitedMissingCRS ==
  \A k \in 1 .. visited :
    shp_paths[k] \in no_crs_files =>
      /\ k = visited
      /\ pc = "failed"
      /\ err = "MissingCRS"
      /\ comp.declared = NoCRS
      /\ df = <<>>

\* The second file had geometry and no CRS; the record of the first is
\* lost with the run.
C9_Witness ==
  /\ pc = "failed"
  /\ err = "MissingCRS"
  /\ visited = 2
  /\ shp_paths[2] \in no_crs_files
  /\ Len(results) = 1
  /\ results[1].area_ha > 0

\* C10: a master without valid geometry fails the run, so the loop never
\* starts on an empty remaining state.
C10_EmptyMaster ==
  pc \in {"find_components", "loop", "aggregate", "done"} => ~IsEmpty(footprint)

\* C11: the layer _ensure_projected_equal_area returns for a master that
\* declares a CRS has a projected CRS; a master in a projected CRS comes
\* back unchanged, a geographic one comes back in the one target CRS with
\* its geometry reprojected, and one without CRS fails with the missing-CRS
\* error.
C11_Normalization ==
  (pc # "read_master" /\ ~master_file.empty) =>
    /\ master_file.declared = NoCRS => (pc = "failed" /\ err = "MissingCRS")
    /\ master_file.declared # NoCRS => master_crs \notin {NoCRS, Geographic}
    /\ master_file.declared \notin {NoCRS, Geographic} =>
         /\ master_crs = master_file.declared
         /\ footprint = master_file.geom
    /\ master_file.declared = Geographic =>
         /\ master_crs = TargetCRS
         /\ footprint = {Transform(c, Geographic, TargetCRS) : c \in master_file.geom}

\* A geographic master came back in the target CRS with other coordinates.
C11_Witness ==
  /\ master_file.declared = Geographic
  /\ master_crs = TargetCRS
  /\ footprint # master_file.geom

\* C12: with sort_layers the processing order is the lexicographic order of
\* the paths of the files found, whatever order they were found in, and the
\* records follow that order.
C12_DeterministicOrder ==
  (sort_layers /\ pc \notin {"read_master", "find_components"}) =>
    /\ {shp_paths[k] : k \in DOMAIN shp_paths} = {found[k] : k \in DOMAIN found}
    /\ Len(shp_paths) = Len(found)
    /\ \A a, b \in DOMAIN shp_paths : a < b => LexLess(shp_paths[a], shp_paths[b])
    /\ \A k \in DOMAIN steps : steps[k].shp = shp_paths[k]

\* The files were found in another order than the sorted one and both were
\* processed.
C12_Witness ==
  /\ sort_layers
  /\ found # shp_paths
  /\ Len(steps) = 2
  /\ pc = "done"

\* C13: on a master of 100 ha, with A the left 60 ha and B the right 70 ha
\* (30 ha in common), order [A, B] records 60.0 ha for A and 40.0 ha for B,
\* 100.0 ha in all, and nothing of the master remains.
C13_WorkedExample ==
  (/\ master_crs = Projected
   /\ footprint = {0, 1, 2}
   /\ Len(steps) = 2
   /\ steps[1].comp_union = {0, 1}
   /\ steps[2].comp_union = {1, 2}) =>
     /\ results[1].area_ha = 6000
     /\ results[2].area_ha = 4000
     /\ TotalHa(results) = AreaHa(footprint, cell_area)
     /\ TotalHa(results) = 10000
     /\ IsEmpty(master_union)
     /\ pc \in {"aggregate", "done"}
     /\ (pc = "done" /\ results[1].Layer # results[2].Layer) =>
          /\ Len(df) = 2
          /\ \A k \in DOMAIN df :
               df[k].area_ha = IF df[k].Layer = results[1].Layer THEN 6000 ELSE 4000

\* The example was run to its table, A before B.
C13_Witness ==
  /\ pc = "done"
  /\ layer_name_from = "filename"
  /\ footprint = {0, 1, 2}
  /\ Len(steps) = 2
  /\ steps[1].shp = PathOf(1)
  /\ steps[1].comp_union = {0, 1}
  /\ steps[2].comp_union = {1, 2}
  /\ Len(df) = 2

\* C14: at every overlay the component is in the CRS of the normalised
\* master, with its geometry in the coordinates of that CRS, and that CRS is
\* projected; the CRS of the master is the one fixed when the master was
\* normalised and its remaining geometry stays inside the footprint
\* computed then.
C14_CrsAgreement ==
  /\ pc \in {"find_components", "loop", "aggregate", "done"} =>
       /\ master_crs \notin {NoCRS, Geographic}
       /\ master_crs = IF master_file.declared = Geographic
                       THEN TargetCRS ELSE master_file.declared
       /\ master_union \subseteq footprint
  /\ (visited > 0 /\ Len(steps) = visited /\ ~steps[visited].empty) =>
       /\ comp.crs = master_crs
       /\ steps[visited].comp_union
            = {Transform(c, comp.declared, master_crs) : c \in comp.geom}

\* A component declared in a geographic CRS was overlaid in the projected
\* CRS of the master, in other coordinates than its own, and allocated area.
C14_Witness ==
  /\ visited > 0
  /\ Len(steps) = visited
  /\ master_crs = Projected
  /\ comp.declared = Geographic
  /\ comp.crs = master_crs
  /\ steps[visited].allocated_geom # {}
  /\ steps[visited].comp_union # comp.geom

\* C15: the emptiness of a component is tested before its CRS: the
\* missing-CRS error is raised in the loop only on a file that has rows and
\* no CRS, and a file without rows is recorded with 0 whatever it declares.
C15_EmptyBeforeCRS ==
  /\ (pc = "failed" /\ err = "MissingCRS" /\ visited > 0) =>
       /\ Len(steps) = visited - 1
       /\ comp.declared = NoCRS
       /\ shp_paths[visited] \in no_crs_files
  /\ \A k \in DOMAIN steps :
       /\ shp_paths[k] \notin no_crs_files
       /\ steps[k].empty => results[k].area_ha = 0

\* A file without rows and without CRS was recorded with 0 and the loop
\* goes on to the next file.
C15_Witness ==
  /\ visited = 1
  /\ Len(steps) = 1
  /\ steps[1].empty
  /\ comp.declared = NoCRS
  /\ results[1].area_ha = 0
  /\ pc = "loop"

\* C16: in a run that has not failed the loop has emitted exactly one
\* record for each file visited, in processing order, named after the stem
\* of the file (layer_name_from = "filename") or after its parent directory;
\* when the loop is over, the files visited are all the files, or the files
\* up to and including the one that left remaining empty.
C16_OneRecordPerFile ==
  pc # "failed" =>
    /\ Len(results) = visited
    /\ Len(steps) = visited
    /\ visited <= Len(shp_paths)
    /\ \A k \in 1 .. visited :
         /\ steps[k].shp = shp_paths[k]
         /\ results[k].Layer = IF layer_name_from = "filename"
                               THEN <<shp_paths[k][3]>> ELSE <<shp_paths[k][1]>>
    /\ pc \in {"aggregate", "done"} =>
         \/ visited = Len(shp_paths)
         \/ /\ visited > 0
            /\ ~steps[visited].empty
            /\ IsEmpty(master_union)

\* A run completed after the first of two files left remaining empty: one
\* record, named after the stem of that file.
C16_Witness ==
  /\ pc = "done"
  /\ layer_name_from = "filename"
  /\ Len(shp_paths) = 2
  /\ visited = 1
  /\ Len(results) = 1
  /\ results[1].area_ha > 0

\* C17: a geographic master is reprojected to the CRS the docstring of
\* _ensure_projected_equal_area names, EPSG:6933.
C17_DocumentedTarget ==
  (pc = "find_components" /\ master_file.declared = Geographic) =>
    master_crs = DocumentedCRS

\* C18: during the loop remaining stays inside the footprint and inside its
\* previous value; it changes only in a step that allocates a non-empty
\* region, and then loses exactly that region; an emitted area is at least
\* 0 and at most the area of remaining before the step.
C18_ShrinkingRemaining ==
  [][pc = "loop" =>
       /\ master_union' \subseteq master_union
       /\ master_union' \subseteq footprint
       /\ master_union' # master_union =>
            /\ Len(steps') = Len(steps) + 1
            /\ steps'[Len(steps')].allocated_geom # {}
            /\ steps'[Len(steps')].allocated_geom \subseteq master_union
            /\ master_union' = master_union \ steps'[Len(steps')].allocated_geom
       /\ (Len(steps') = Len(steps) + 1 /\ steps'[Len(steps')].allocated_geom = {}) =>
            master_union' = master_union
       /\ Len(results') = Len(results) + 1 =>
            /\ results'[Len(results')].area_ha >= 0
            /\ results'[Len(results')].area_ha <= AreaHa(master_union, cell_area)]_vars

\* A component with geometry was allocated nothing and left remaining as it
\* was; the next one took a part of it and left the rest.
C18_Witness ==
  /\ Len(steps) = 2
  /\ ~steps[1].empty
  /\ steps[1].allocated_geom = {}
  /\ steps[2].allocated_geom # {}
  /\ master_union # {}
  /\ master_union # footprint

\* C19: with a valid master that has a CRS and no component file the run
\* completes and returns a table without rows.
C19_NoComponents ==
  (/\ pc \in {"done", "failed"}
   /\ ~master_file.empty
   /\ master_file.declared # NoCRS
   /\ shp_paths = <<>>) =>
     /\ pc = "done"
     /\ err = "none"
     /\ df = <<>>

====
